---- MODULE Spec2Model ----
(***************************************************************************)
(* Model of .github/workflows/build.py: the one-shot build script that     *)
(* discovers team documents, converts Jupytext .py files to .qmd, writes   *)
(* _quarto.yml and index.qmd and runs "quarto render".                     *)
(*                                                                         *)
(* Text is modelled as sequences of one-character strings, so slicing,     *)
(* substring search, split, join, prefix tests and sorting are computed    *)
(* the way the Python code computes them.                                  *)
(*                                                                         *)
(* Three specifications share the module:                                  *)
(*   Spec       build_site, step by step, over a small file system         *)
(*   SpecSniff  is_jupytext_file over contents around the 500/1000 windows *)
(*   SpecManual manual_jupytext_to_qmd, line by line                       *)
(***************************************************************************)
EXTENDS Integers, Sequences, FiniteSets, TLC

VARIABLES
    \* ---- build_site -------------------------------------------------
    pc,          \* position in build_site: "start","convert","yml","index","render","done","crashed","off"
    run,         \* number of the current run of the script (1-based)
    fs,          \* Team_Projects/: entry name -> [isdir, files: filename -> [readable, text]]
    teams,       \* the list `teams` of build_site
    discovered,  \* `teams` as discover_team_projects returned it (history)
    cur,         \* <<team index, file index>>: next position of the conversion loops
    results,     \* conversion results so far: position -> "None" or the returned path (history)
    last,        \* what the most recent convert_jupytext_to_qmd call did (history)
    steps,       \* the steps of this run in the order they happened (history)
    rootFiles,   \* files written at the root: name -> content
    render,      \* outcome of run_quarto_render: "none","ok","nonzero","notfound","raised"
    exitCode,    \* process exit status, -1 while running
    \* ---- is_jupytext_file -------------------------------------------
    sPc, sFile, sResult,
    \* ---- manual_jupytext_to_qmd ---------------------------------------
    mPc, mStem, mText, mLines, mI, mSt

buildVars  == <<pc, run, fs, teams, discovered, cur, results, last, steps, rootFiles, render, exitCode>>
sniffVars  == <<sPc, sFile, sResult>>
manualVars == <<mPc, mStem, mText, mLines, mI, mSt>>
vars == <<buildVars, sniffVars, manualVars>>

----------------------------------------------------------------------------
(* Characters and strings                                                  *)

\* Code points of the characters that occur in names (Python compares str by code point).
Letters == <<"a", "b", "c", "d", "e", "f", "g", "h", "i", "j", "k", "l", "m",
             "n", "o", "p", "q", "r", "s", "t", "u", "v", "w", "x", "y", "z">>
Ord(c) ==
    CASE c = "-" -> 45 [] c = "." -> 46 [] c = "_" -> 95
      [] OTHER -> 96 + (CHOOSE i \in 1..Len(Letters) : Letters[i] = c)

\* str.__lt__: lexicographic by code point, a proper prefix sorts first.
RECURSIVE StrLess(_, _)
StrLess(a, b) ==
    IF b = <<>> THEN FALSE
    ELSE IF a = <<>> THEN TRUE
    ELSE IF Ord(Head(a)) # Ord(Head(b)) THEN Ord(Head(a)) < Ord(Head(b))
    ELSE StrLess(Tail(a), Tail(b))

\* sorted(...) over a set of distinct names: ascending by StrLess.
RECURSIVE Sorted(_)
Sorted(S) ==
    IF S = {} THEN <<>>
    ELSE LET m == CHOOSE x \in S : \A y \in S \ {x} : StrLess(x, y)
         IN  <<m>> \o Sorted(S \ {m})

\* s[:n]
Take(s, n) == SubSeq(s, 1, IF n < Len(s) THEN n ELSE Len(s))

\* s[n:]
Drop(s, n) == SubSeq(s, n + 1, Len(s))

\* s.startswith(p)
StartsWith(s, p) == Len(p) <= Len(s) /\ SubSeq(s, 1, Len(p)) = p

\* s.endswith(p)
EndsWith(s, p) == Len(p) <= Len(s) /\ SubSeq(s, Len(s) - Len(p) + 1, Len(s)) = p

\* `tok in s`
Contains(tok, s) ==
    \E i \in 1..(Len(s) - Len(tok) + 1) : SubSeq(s, i, i + Len(tok) - 1) = tok

IsSpace(c) == c \in {" ", "\n", "\t"}

\* s.strip()
RECURSIVE LStrip(_)
LStrip(s) == IF s # <<>> /\ IsSpace(Head(s)) THEN LStrip(Tail(s)) ELSE s
RECURSIVE RStrip(_)
RStrip(s) == IF s # <<>> /\ IsSpace(s[Len(s)]) THEN RStrip(SubSeq(s, 1, Len(s) - 1)) ELSE s
Strip(s) == RStrip(LStrip(s))

\* content.split("\n")
RECURSIVE SplitFrom(_, _)
SplitFrom(s, acc) ==
    IF s = <<>> THEN <<acc>>
    ELSE IF Head(s) = "\n" THEN <<acc>> \o SplitFrom(Tail(s), <<>>)
    ELSE SplitFrom(Tail(s), Append(acc, Head(s)))
Split(s) == SplitFrom(s, <<>>)

\* "\n".join(lines)
RECURSIVE Join(_)
Join(ls) ==
    IF ls = <<>> THEN <<>>
    ELSE IF Len(ls) = 1 THEN ls[1]
    ELSE ls[1] \o <<"\n">> \o Join(Tail(ls))

\* Path.stem: the name without its last suffix (a leading or trailing dot is no suffix).
RECURSIVE RFindDot(_, _)
RFindDot(s, i) == IF i = 0 THEN 0 ELSE IF s[i] = "." THEN i ELSE RFindDot(s, i - 1)
Stem(name) ==
    LET i == RFindDot(name, Len(name))
    IN  IF 1 < i /\ i < Len(name) THEN SubSeq(name, 1, i - 1) ELSE name

----------------------------------------------------------------------------
(* Tokens of the source                                                    *)

Delim       == <<"#", " ", "-", "-", "-">>                          \* "# ---"
Marker      == <<"j", "u", "p", "y", "t", "e", "x", "t", ":">>      \* "jupytext:"
CellMd      == <<"#", " ", "%", "%", " ", "[", "m", "a", "r", "k", "d", "o", "w", "n", "]">>
CellAny     == <<"#", " ", "%", "%">>                               \* "# %%"
YamlFence   == <<"-", "-", "-">>                                    \* "---"
YamlFenceNl == <<"-", "-", "-", "\n">>                              \* "---\n"
\* The grave accent (U+0060): the lexer of TLA+ does not take it inside a string.
Tick        == "GRAVE"
OpenFence   == <<"\n", Tick, Tick, Tick, "{", "p", "y", "t", "h", "o", "n", "}">>
CloseFenceNl == <<Tick, Tick, Tick, "\n">>                             \* "```\n"
CloseFence  == <<Tick, Tick, Tick>>                                    \* "```"
TitleLine(stem) == <<"t", "i", "t", "l", "e", ":", " ", "\"">> \o stem \o <<"\"">>

ExtMd    == <<".", "m", "d">>
ExtQmd   == <<".", "q", "m", "d">>
ExtIpynb == <<".", "i", "p", "y", "n", "b">>
ExtPy    == <<".", "p", "y">>

SniffDelimWindow  == 500
SniffMarkerWindow == 1000

----------------------------------------------------------------------------
(* is_jupytext_file                                                        *)

\* (a sniff that looks for the delimiter in the marker's window)
IsJupytextFileWide(f) ==
    IF ~f.readable THEN FALSE
    ELSE /\ Contains(Delim, Take(f.text, SniffMarkerWindow))
         /\ Contains(Marker, Take(f.text, SniffMarkerWindow))

\* try: read_text(); return "# ---" in content[:500] and "jupytext:" in content[:1000]
\* except Exception: return False
IsJupytextFile(f) ==
    IF ~f.readable THEN FALSE
    ELSE /\ Contains(Delim, Take(f.text, SniffDelimWindow))
         /\ Contains(Marker, Take(f.text, SniffMarkerWindow))

----------------------------------------------------------------------------
(* manual_jupytext_to_qmd: the locals of the function as a record          *)

ManualStart ==
    [ qmd_lines        |-> <<YamlFence>>,
      in_yaml_header   |-> FALSE,
      yaml_content     |-> <<>>,
      broke            |-> FALSE,      \* the first loop hit its `break`
      in_code_block    |-> FALSE,
      skip_header      |-> TRUE,
      header_end_count |-> 0 ]

\* line[2:] if line.startswith("# ") else line[1:] if line.startswith("#") else line
DePrefix(line) ==
    IF StartsWith(line, <<"#", " ">>) THEN Drop(line, 2)
    ELSE IF StartsWith(line, <<"#">>) THEN Drop(line, 1)
    ELSE line

\* One iteration of the first loop ("Extract YAML header").
HeaderLine(st, line) ==
    IF st.broke THEN st
    ELSE IF Strip(line) = Delim /\ ~st.in_yaml_header
         THEN [st EXCEPT !.in_yaml_header = TRUE]
    ELSE IF Strip(line) = Delim /\ st.in_yaml_header
         THEN [st EXCEPT !.in_yaml_header = FALSE, !.broke = TRUE]
    ELSE IF st.in_yaml_header
         THEN [st EXCEPT !.yaml_content = Append(@, DePrefix(line))]
    ELSE st

\* After the first loop: the metadata block of the output.
HeaderEmit(st, stem) ==
    [st EXCEPT !.qmd_lines =
        (@ \o (IF st.yaml_content # <<>> THEN st.yaml_content ELSE <<TitleLine(stem)>>))
           \o <<YamlFenceNl>>]

\* (a body loop that opens a code region at every cell marker)
BodyLineReopen(st, line) ==
    IF st.skip_header
    THEN IF Strip(line) = Delim
         THEN [st EXCEPT !.header_end_count = @ + 1,
                         !.skip_header = ~(st.header_end_count + 1 >= 2)]
         ELSE st
    ELSE IF StartsWith(line, CellMd)
    THEN IF st.in_code_block
         THEN [st EXCEPT !.qmd_lines = Append(@, CloseFenceNl), !.in_code_block = FALSE]
         ELSE st
    ELSE IF StartsWith(line, CellAny)
    THEN [st EXCEPT !.qmd_lines = Append(@, OpenFence), !.in_code_block = TRUE]
    ELSE IF ~st.in_code_block /\ StartsWith(line, <<"#", " ">>)
    THEN [st EXCEPT !.qmd_lines = Append(@, Drop(line, 2))]
    ELSE IF st.in_code_block
    THEN [st EXCEPT !.qmd_lines = Append(@, line)]
    ELSE IF Strip(line) = <<>>
    THEN [st EXCEPT !.qmd_lines = Append(@, <<>>)]
    ELSE st

\* One iteration of the second loop ("Process content after header").
BodyLine(st, line) ==
    IF st.skip_header
    THEN IF Strip(line) = Delim
         THEN [st EXCEPT !.header_end_count = @ + 1,
                         !.skip_header = ~(st.header_end_count + 1 >= 2)]
         ELSE st
    ELSE IF StartsWith(line, CellMd)
    THEN IF st.in_code_block
         THEN [st EXCEPT !.qmd_lines = Append(@, CloseFenceNl), !.in_code_block = FALSE]
         ELSE st
    ELSE IF StartsWith(line, CellAny)
    THEN IF ~st.in_code_block
         THEN [st EXCEPT !.qmd_lines = Append(@, OpenFence), !.in_code_block = TRUE]
         ELSE st
    ELSE IF ~st.in_code_block /\ StartsWith(line, <<"#", " ">>)
    THEN [st EXCEPT !.qmd_lines = Append(@, Drop(line, 2))]
    ELSE IF st.in_code_block
    THEN [st EXCEPT !.qmd_lines = Append(@, line)]
    ELSE IF Strip(line) = <<>>
    THEN [st EXCEPT !.qmd_lines = Append(@, <<>>)]
    ELSE st

\* "Close any open code block"
CloseOpenBlock(st) ==
    IF st.in_code_block THEN [st EXCEPT !.qmd_lines = Append(@, CloseFence)] ELSE st

RECURSIVE FoldHeader(_, _)
FoldHeader(st, lines) ==
    IF lines = <<>> THEN st ELSE FoldHeader(HeaderLine(st, Head(lines)), Tail(lines))

RECURSIVE FoldBody(_, _)
FoldBody(st, lines) ==
    IF lines = <<>> THEN st ELSE FoldBody(BodyLine(st, Head(lines)), Tail(lines))

\* The text manual_jupytext_to_qmd writes for a source text and a stem.
ManualQmdText(text, stem) ==
    LET lines == Split(text)
        h     == HeaderEmit(FoldHeader(ManualStart, lines), stem)
    IN  Join(CloseOpenBlock(FoldBody(h, lines)).qmd_lines)

----------------------------------------------------------------------------
(* The file system under Team_Projects/ and the files at the root          *)

\* f with key k set to v (a file created or overwritten)
Put(f, k, v) == [x \in DOMAIN f \cup {k} |-> IF x = k THEN v ELSE f[x]]

WriteFile(fsv, dir, name, file) ==
    [fsv EXCEPT !.entries[dir].files = Put(@, name, file)]

FileExists(fsv, dir, name) == name \in DOMAIN fsv.entries[dir].files

----------------------------------------------------------------------------
(* discover_team_projects                                                  *)

SkipDirs ==
    { <<"t", "e", "m", "p", "l", "a", "t", "e">>,
      <<".", "v", "e", "n", "v">>,
      <<"_", "_", "p", "y", "c", "a", "c", "h", "e", "_", "_">>,
      <<"d", "e", "m", "o">>,
      <<"d", "a", "t", "a">> }

Doc(dir, fname, type) == [path |-> <<dir, fname>>, type |-> type, name |-> Stem(fname)]

\* sorted(team_dir.glob("*" + ext))
GlobSorted(files, ext) == Sorted({n \in DOMAIN files : EndsWith(n, ext)})

\* The `files` list of one team directory: .md, .qmd, .ipynb, then sniffed .py.
DocsOf(dir, files) ==
    LET md    == GlobSorted(files, ExtMd)
        qmd   == GlobSorted(files, ExtQmd)
        ipynb == GlobSorted(files, ExtIpynb)
        IsJ(n) == IsJupytextFile(files[n])
        py    == SelectSeq(GlobSorted(files, ExtPy), IsJ)
    IN     [i \in 1..Len(md)    |-> Doc(dir, md[i], "markdown")]
        \o [i \in 1..Len(qmd)   |-> Doc(dir, qmd[i], "quarto")]
        \o [i \in 1..Len(ipynb) |-> Doc(dir, ipynb[i], "notebook")]
        \o [i \in 1..Len(py)    |-> Doc(dir, py[i], "jupytext")]

\* (a discovery that forgets the denylist)
DiscoverNoDenylist(fsv) ==
    IF ~fsv.exists THEN <<>>
    ELSE LET Keep(n) == /\ fsv.entries[n].isdir
                        /\ ~StartsWith(n, <<".">>)
                        /\ DocsOf(n, fsv.entries[n].files) # <<>>
             kept == SelectSeq(Sorted(DOMAIN fsv.entries), Keep)
         IN  [i \in 1..Len(kept) |->
                [name |-> kept[i], path |-> <<kept[i]>>,
                 files |-> DocsOf(kept[i], fsv.entries[kept[i]].files)]]

DiscoverTeamProjects(fsv) ==
    IF ~fsv.exists THEN <<>>
    ELSE LET Keep(n) == /\ fsv.entries[n].isdir
                        /\ ~(StartsWith(n, <<".">>) \/ n \in SkipDirs)
                        /\ DocsOf(n, fsv.entries[n].files) # <<>>
             kept == SelectSeq(Sorted(DOMAIN fsv.entries), Keep)
         IN  [i \in 1..Len(kept) |->
                [name |-> kept[i], path |-> <<kept[i]>>,
                 files |-> DocsOf(kept[i], fsv.entries[kept[i]].files)]]

----------------------------------------------------------------------------
(* convert_jupytext_to_qmd and its caller's update                         *)

\* What the jupytext tool writes is outside this repository: an opaque text.
ToolQmdFile == [readable |-> TRUE, text |-> <<"q">>]

\* What the environment does to one call: whether `jupytext` can be started
\* ("found", "missing": FileNotFoundError, "noexec": another OSError such as
\* PermissionError), its exit code, whether it wrote the output file, and
\* whether the manual fallback's write_text succeeds.
ConvEnvs ==
         [tool : {"found"}, rc : {0, 1}, wrote : BOOLEAN, writeOk : {TRUE}]
    \cup [tool : {"missing"}, rc : {0}, wrote : {FALSE}, writeOk : BOOLEAN]
    \cup [tool : {"noexec"}, rc : {0}, wrote : {FALSE}, writeOk : {TRUE}]

NoResult == <<>>     \* Python's None

\* manual_jupytext_to_qmd(py_file, output_dir): `except Exception` returns None
ManualJupytextToQmd(fsv, path, env) ==
    LET dir  == path[1]
        src  == fsv.entries[dir].files[path[2]]
        out  == Stem(path[2]) \o ExtQmd
        ok   == src.readable /\ env.writeOk
    IN  [ fs     |-> IF ok THEN WriteFile(fsv, dir, out,
                                  [readable |-> TRUE,
                                   text |-> ManualQmdText(src.text, Stem(path[2]))])
                     ELSE fsv,
          result |-> IF ok THEN <<dir, out>> ELSE NoResult ]

\* (a converter that falls back to the manual transform whenever the tool fails)
ConvertAlwaysFallback(fsv, path, env) ==
    LET dir    == path[1]
        out    == Stem(path[2]) \o ExtQmd
        fs1    == IF env.wrote THEN WriteFile(fsv, dir, out, ToolQmdFile) ELSE fsv
        exists == FileExists(fs1, dir, out)
        man    == ManualJupytextToQmd(fs1, path, env)
    IN  IF env.tool = "found" /\ env.rc = 0 /\ exists
        THEN [fs |-> fs1, result |-> <<dir, out>>, raised |-> FALSE, toolRuns |-> 1,
              rc |-> env.rc, manualRan |-> FALSE, located |-> TRUE]
        ELSE [fs |-> man.fs, result |-> man.result, raised |-> FALSE,
              toolRuns |-> IF env.tool = "found" THEN 1 ELSE 0,
              rc |-> env.rc, manualRan |-> TRUE,
              located |-> env.tool = "found"]

\* convert_jupytext_to_qmd(py_file, output_dir). `raised`: an exception other
\* than FileNotFoundError left the function.
ConvertJupytextToQmd(fsv, path, env) ==
    LET dir    == path[1]
        out    == Stem(path[2]) \o ExtQmd
        fs1    == IF env.wrote THEN WriteFile(fsv, dir, out, ToolQmdFile) ELSE fsv
        exists == FileExists(fs1, dir, out)
        man    == ManualJupytextToQmd(fsv, path, env)
    IN  CASE env.tool = "found" ->
               [fs |-> fs1,
                result |-> IF env.rc = 0 /\ exists THEN <<dir, out>> ELSE NoResult,
                raised |-> FALSE, toolRuns |-> 1, rc |-> env.rc, manualRan |-> FALSE, located |-> TRUE]
          [] env.tool = "missing" ->
               [fs |-> man.fs, result |-> man.result,
                raised |-> FALSE, toolRuns |-> 0, rc |-> env.rc, manualRan |-> TRUE,
                located |-> FALSE]
          [] env.tool = "noexec" ->
               [fs |-> fsv, result |-> NoResult,
                raised |-> TRUE, toolRuns |-> 0, rc |-> env.rc, manualRan |-> FALSE,
                located |-> TRUE]

\* (an update that does not look at the result)
ApplyConversionAlways(ts, pos, result) ==
    LET d == ts[pos[1]].files[pos[2]]
    IN  [ts EXCEPT ![pos[1]].files[pos[2]] =
            [path |-> <<d.path[1], Stem(d.path[2]) \o ExtQmd>>,
             type |-> "quarto", name |-> d.name]]

\* if qmd_path: f["path"] = qmd_path; f["type"] = "quarto"
ApplyConversion(ts, pos, result) ==
    IF result # NoResult
    THEN [ts EXCEPT ![pos[1]].files[pos[2]] = [@ EXCEPT !.path = result, !.type = "quarto"]]
    ELSE ts

\* Positions <<team, file>> of the two nested loops of build_site, in loop order.
AllPos(ts) == UNION {{<<i, j>> : j \in 1..Len(ts[i].files)} : i \in 1..Len(ts)}
PosLeq(p, q) == p[1] < q[1] \/ (p[1] = q[1] /\ p[2] <= q[2])
DocAt(ts, p) == ts[p[1]].files[p[2]]
JupyFrom(ts, c) == {p \in AllPos(ts) : PosLeq(c, p) /\ DocAt(ts, p).type = "jupytext"}
NextJupy(ts, c) == CHOOSE p \in JupyFrom(ts, c) : \A q \in JupyFrom(ts, c) : PosLeq(p, q)

----------------------------------------------------------------------------
(* generate_quarto_yml, create_index_qmd                                   *)

TeamProjects == "Team_Projects"

\* f["path"].relative_to(root)
RelPath(path) == <<TeamProjects>> \o path

\* The sidebar of _quarto.yml: one section per team with files, else the
\* fallback entry Team_Projects/README.md. The rest of the text is constant.
GenerateQuartoYml(ts) ==
    LET withFiles == SelectSeq(ts, LAMBDA t : t.files # <<>>)
        entries   == [i \in 1..Len(withFiles) |->
                        [section  |-> withFiles[i].name,
                         contents |-> [j \in 1..Len(withFiles[i].files) |->
                                          RelPath(withFiles[i].files[j].path)]]]
    IN  [written |-> TRUE, fallback |-> entries = <<>>, sidebar |-> entries]

\* index.qmd: title and body taken from index.html when it exists, and the
\* "Team Projects" section: per team a heading and one link per document.
CreateIndexQmd(html, ts) ==
    [ written |-> TRUE,
      title   |-> IF html.exists /\ html.hasTitle THEN "html-title" ELSE "Data Dive 2025",
      body    |-> IF html.exists /\ html.hasBody THEN "html-body" ELSE "",
      team_links |-> [i \in 1..Len(ts) |->
                        [heading |-> ts[i].name,
                         links   |-> [j \in 1..Len(ts[i].files) |->
                                        [name |-> ts[i].files[j].name,
                                         href |-> RelPath(ts[i].files[j].path)]]]] ]

NotWritten == [written |-> FALSE]

----------------------------------------------------------------------------
(* Bounds and the inputs of the build                                      *)

MaxEntries == 2      \* entries of Team_Projects/ in an initial file system
MaxRuns    == 2      \* runs of the script over the same tree

Readable(text)   == [readable |-> TRUE, text |-> text]
Unreadable(text) == [readable |-> FALSE, text |-> text]

\* A small Jupytext percent-format source and a plain Python source.
JupyText  == Join(<< Delim, <<"#", " ">> \o Marker, Delim, CellAny, <<"x">> >>)
PlainText == <<"x">>

NameA == <<"a">>
NameB == <<"b">>
NameHidden == <<".", "h">>
NameData   == <<"d", "a", "t", "a">>
EntryNames == {NameA, NameB, NameHidden, NameData}

\* A directory with no recognized document: a plain .py and an unreadable one.
DirPlain == (<<"p", ".", "p", "y">> :> Readable(PlainText))
         @@ (<<"u", ".", "p", "y">> :> Unreadable(JupyText))
\* A Jupytext source next to a .qmd of the same stem.
DirClash == (<<"r", ".", "p", "y">> :> Readable(JupyText))
         @@ (<<"r", ".", "q", "m", "d">> :> Readable(<<"o">>))
\* One file of every class; "a-b.md" sorts before "a.md" ("-" < ".").
DirMix   == (<<"a", ".", "m", "d">> :> Readable(<<"m">>))
         @@ (<<"a", "-", "b", ".", "m", "d">> :> Readable(<<"m">>))
         @@ (<<"k", ".", "i", "p", "y", "n", "b">> :> Readable(<<"n">>))
         @@ (<<"p", ".", "p", "y">> :> Readable(PlainText))
         @@ (<<"r", ".", "p", "y">> :> Readable(JupyText))
NoFiles  == [n \in {} |-> Readable(<<>>)]

EntryChoices ==
    {[isdir |-> FALSE, files |-> NoFiles]} \cup
    {[isdir |-> TRUE, files |-> d] : d \in {DirPlain, DirClash, DirMix}}

InitialFileSystems ==
    {[exists |-> FALSE, entries |-> [n \in {} |-> [isdir |-> FALSE, files |-> NoFiles]]]}
    \cup
    {[exists |-> TRUE, entries |-> e] :
        e \in UNION {[S -> EntryChoices] :
                        S \in {T \in SUBSET EntryNames : Cardinality(T) <= MaxEntries}}}

HtmlChoices == {[exists |-> FALSE, hasTitle |-> FALSE, hasBody |-> FALSE],
                [exists |-> TRUE, hasTitle |-> TRUE, hasBody |-> TRUE]}

NoCall == [pos |-> <<0, 0>>, toolRuns |-> 0, rc |-> 0,
           manualRan |-> FALSE, located |-> FALSE, result |-> NoResult, raised |-> FALSE]

----------------------------------------------------------------------------
(* build_site                                                              *)

SniffOff  == /\ sPc = "off" /\ sFile = Readable(<<>>) /\ sResult = FALSE
ManualOff == /\ mPc = "off" /\ mStem = <<>> /\ mText = <<>> /\ mLines = <<>> /\ mI = 0 /\ mSt = ManualStart

BuildInit ==
    /\ pc = "start"
    /\ run = 1
    /\ fs \in InitialFileSystems
    /\ teams = <<>>
    /\ discovered = <<>>
    /\ cur = <<1, 1>>
    /\ results = <<>>
    /\ last = NoCall
    /\ steps = <<>>
    /\ \E h \in HtmlChoices :
          rootFiles = [html |-> h, yml |-> NotWritten, index |-> NotWritten]
    /\ render = "none"
    /\ exitCode = -1

Init == BuildInit /\ SniffOff /\ ManualOff

\* teams = discover_team_projects(team_src_dir)
Discover ==
    /\ pc = "start"
    /\ teams' = DiscoverTeamProjects(fs)
    /\ discovered' = teams'
    /\ cur' = <<1, 1>>
    /\ steps' = Append(steps, "discover")
    /\ pc' = IF JupyFrom(teams', <<1, 1>>) # {} THEN "convert" ELSE "yml"
    /\ UNCHANGED <<run, fs, results, last, rootFiles, render, exitCode>>
    /\ UNCHANGED <<sniffVars, manualVars>>

\* One iteration of the conversion loops that reaches a "jupytext" document.
\* An exception leaving convert_jupytext_to_qmd leaves build_site too: the
\* interpreter prints the traceback and exits with status 1.
Convert ==
    /\ pc = "convert"
    /\ \E env \in ConvEnvs :
         LET p == NextJupy(teams, cur)
             r == ConvertJupytextToQmd(fs, DocAt(teams, p).path, env)
             next == <<p[1], p[2] + 1>>
         IN  /\ fs' = r.fs
             /\ last' = [pos |-> p, toolRuns |-> r.toolRuns, rc |-> r.rc, manualRan |-> r.manualRan,
                         located |-> r.located, result |-> r.result, raised |-> r.raised]
             /\ steps' = Append(steps, "convert")
             /\ IF r.raised
                THEN /\ pc' = "crashed"
                     /\ exitCode' = 1
                     /\ UNCHANGED <<teams, cur, results>>
                ELSE /\ teams' = ApplyConversion(teams, p, r.result)
                     /\ results' = Put(results, p, r.result)
                     /\ cur' = next
                     /\ pc' = IF JupyFrom(teams', next) # {} THEN "convert" ELSE "yml"
                     /\ UNCHANGED exitCode
    /\ UNCHANGED <<run, discovered, rootFiles, render>>
    /\ UNCHANGED <<sniffVars, manualVars>>

\* quarto_yml_path.write_text(generate_quarto_yml(root, teams))
WriteConfig ==
    /\ pc = "yml"
    /\ rootFiles' = [rootFiles EXCEPT !.yml = GenerateQuartoYml(teams)]
    /\ steps' = Append(steps, "yml")
    /\ pc' = "index"
    /\ UNCHANGED <<run, fs, teams, discovered, cur, results, last, render, exitCode>>
    /\ UNCHANGED <<sniffVars, manualVars>>

\* index_qmd_path.write_text(create_index_qmd(root, teams))
WriteIndex ==
    /\ pc = "index"
    /\ rootFiles' = [rootFiles EXCEPT !.index = CreateIndexQmd(rootFiles.html, teams)]
    /\ steps' = Append(steps, "index")
    /\ pc' = "render"
    /\ UNCHANGED <<run, fs, teams, discovered, cur, results, last, render, exitCode>>
    /\ UNCHANGED <<sniffVars, manualVars>>

\* What the environment does to `quarto render`.
RenderEnvs == {"ok", "nonzero", "notfound", "raised"}

\* run_quarto_render(root): True, or False on a nonzero exit code or FileNotFoundError.
\* (Any other exception leaves the function; RenderAndExit handles that case.)
RunQuartoRender(env) == env = "ok"

\* success = run_quarto_render(root); sys.exit(1) unless success
RenderAndExit ==
    /\ pc = "render"
    /\ \E env \in RenderEnvs :
         /\ render' = env
         /\ IF env = "raised"
            THEN pc' = "crashed" /\ exitCode' = 1
            ELSE pc' = "done" /\ exitCode' = (IF RunQuartoRender(env) THEN 0 ELSE 1)
    /\ steps' = Append(steps, "render")
    /\ UNCHANGED <<run, fs, teams, discovered, cur, results, last, rootFiles>>
    /\ UNCHANGED <<sniffVars, manualVars>>

\* The script is run again over the tree the previous run left behind.
RunAgain ==
    /\ pc \in {"done", "crashed"}
    /\ run < MaxRuns
    /\ run' = run + 1
    /\ pc' = "start"
    /\ teams' = <<>>
    /\ discovered' = <<>>
    /\ cur' = <<1, 1>>
    /\ results' = <<>>
    /\ last' = NoCall
    /\ steps' = <<>>
    /\ render' = "none"
    /\ exitCode' = -1
    /\ UNCHANGED <<fs, rootFiles>>
    /\ UNCHANGED <<sniffVars, manualVars>>

Next ==
    \/ Discover
    \/ Convert
    \/ WriteConfig
    \/ WriteIndex
    \/ RenderAndExit
    \/ RunAgain

Spec == Init /\ [][Next]_vars

----------------------------------------------------------------------------
(* is_jupytext_file on its own: files whose tokens sit around the windows  *)

SniffTail == 2       \* filler characters after the last token

\* Offsets (0-based, as in Python) at which a token starts; -1: no such token.
DelimOffsets  == {-1, 0, 494, 495, 496, 499, 500, 700}
MarkerOffsets == {-1, 5, 485, 501, 990, 991, 992, 1200}

Max(a, b) == IF a < b THEN b ELSE a

\* A text of filler with Delim at offset a and Marker at offset m.
SniffText(a, m) ==
    LET endD == IF a < 0 THEN 0 ELSE a + Len(Delim)
        endM == IF m < 0 THEN 0 ELSE m + Len(Marker)
    IN  [i \in 1..(Max(endD, endM) + SniffTail) |->
            IF a >= 0 /\ a < i /\ i <= endD THEN Delim[i - a]
            ELSE IF m >= 0 /\ m < i /\ i <= endM THEN Marker[i - m]
            ELSE "x"]

\* Placements in which the two tokens do not overlap.
Placements ==
    {am \in DelimOffsets \X MarkerOffsets :
        \/ am[1] < 0 \/ am[2] < 0
        \/ am[1] + Len(Delim) <= am[2]
        \/ am[2] + Len(Marker) <= am[1]}

SniffFiles ==
    {[readable |-> r, text |-> SniffText(am[1], am[2])] : r \in BOOLEAN, am \in Placements}

BuildOff ==
    /\ pc = "off" /\ run = 0
    /\ fs = [exists |-> FALSE, entries |-> [n \in {} |-> [isdir |-> FALSE, files |-> NoFiles]]]
    /\ teams = <<>> /\ discovered = <<>> /\ cur = <<1, 1>> /\ results = <<>>
    /\ last = NoCall /\ steps = <<>>
    /\ rootFiles = [html |-> [exists |-> FALSE, hasTitle |-> FALSE, hasBody |-> FALSE],
                    yml |-> NotWritten, index |-> NotWritten]
    /\ render = "none" /\ exitCode = -1

SniffInit ==
    /\ sPc = "ready"
    /\ sFile \in SniffFiles
    /\ sResult = FALSE
    /\ BuildOff /\ ManualOff

Sniff ==
    /\ sPc = "ready"
    /\ sResult' = IsJupytextFile(sFile)
    /\ sPc' = "done"
    /\ UNCHANGED <<sFile, buildVars, manualVars>>

SniffNext == Sniff

SpecSniff == SniffInit /\ [][SniffNext]_vars

----------------------------------------------------------------------------
(* manual_jupytext_to_qmd on its own, one loop iteration per step          *)

MaxBody == 3         \* lines after the optional metadata block

MdText  == <<"#", " ", "t">>       \* "# t": a markdown line of a percent-format file
YamlKey == <<"#", " ", "k", ":", " ", "v">>
CodeX   == <<"x">>

BodyAlphabet == {Delim, CellMd, CellAny, MdText, CodeX, <<>>}

\* No block, an unterminated block, an empty block, a block with one line.
HeaderPrefixes == {<<>>, <<Delim>>, <<Delim, Delim>>, <<Delim, YamlKey, Delim>>}

ManualTexts ==
    {Join(h \o b) :
        h \in HeaderPrefixes,
        b \in UNION {[1..n -> BodyAlphabet] : n \in 0..MaxBody}}

ManualInit ==
    /\ mPc = "start"
    /\ mStem = <<"r">>
    /\ mText \in ManualTexts
    /\ mLines = <<>>
    /\ mI = 0
    /\ mSt = ManualStart
    /\ BuildOff /\ SniffOff

\* content = py_file.read_text(); lines = content.split("\n"); qmd_lines = ["---"]
MRead ==
    /\ mPc = "start"
    /\ mLines' = Split(mText)
    /\ mSt' = ManualStart
    /\ mI' = 1
    /\ mPc' = "header"
    /\ UNCHANGED <<mStem, mText, buildVars, sniffVars>>

\* One iteration of the first loop.
MHeaderLine ==
    /\ mPc = "header"
    /\ mI <= Len(mLines) /\ ~mSt.broke
    /\ mSt' = HeaderLine(mSt, mLines[mI])
    /\ mI' = mI + 1
    /\ UNCHANGED <<mPc, mStem, mText, mLines, buildVars, sniffVars>>

\* The first loop ended (exhausted or `break`): emit the metadata block.
MHeaderEmit ==
    /\ mPc = "header"
    /\ (mI > Len(mLines) \/ mSt.broke)
    /\ mSt' = HeaderEmit(mSt, mStem)
    /\ mI' = 1
    /\ mPc' = "body"
    /\ UNCHANGED <<mStem, mText, mLines, buildVars, sniffVars>>

\* One iteration of the second loop.
MBodyLine ==
    /\ mPc = "body"
    /\ mI <= Len(mLines)
    /\ mSt' = BodyLine(mSt, mLines[mI])
    /\ mI' = mI + 1
    /\ UNCHANGED <<mPc, mStem, mText, mLines, buildVars, sniffVars>>

\* The second loop ended: close an open code block; the text is written.
MFinish ==
    /\ mPc = "body"
    /\ mI > Len(mLines)
    /\ mSt' = CloseOpenBlock(mSt)
    /\ mPc' = "done"
    /\ UNCHANGED <<mStem, mText, mLines, mI, buildVars, sniffVars>>

ManualNext ==
    \/ MRead
    \/ MHeaderLine
    \/ MHeaderEmit
    \/ MBodyLine
    \/ MFinish

SpecManual == ManualInit /\ [][ManualNext]_vars

----------------------------------------------------------------------------
(* Properties                                                              *)

Kinds == {"markdown", "quarto", "notebook", "jupytext"}

Hidden(n) == n # <<>> /\ n[1] = "."

\* The recognized documents of a directory, stated from the file names.
Recognized(files) ==
    {n \in DOMAIN files :
        \/ EndsWith(n, ExtMd) \/ EndsWith(n, ExtQmd) \/ EndsWith(n, ExtIpynb)
        \/ (EndsWith(n, ExtPy) /\ IsJupytextFile(files[n]))}

ExtGroup(fname) ==
    IF EndsWith(fname, ExtMd) THEN 1
    ELSE IF EndsWith(fname, ExtQmd) THEN 2
    ELSE IF EndsWith(fname, ExtIpynb) THEN 3
    ELSE 4

KindGroup(kind) ==
    CASE kind = "markdown" -> 1 [] kind = "quarto" -> 2
      [] kind = "notebook" -> 3 [] kind = "jupytext" -> 4

ExpectedTeamNames ==
    {n \in DOMAIN fs.entries :
        /\ fs.entries[n].isdir
        /\ ~Hidden(n)
        /\ n \notin SkipDirs
        /\ Recognized(fs.entries[n].files) # {}}

JustDiscovered == steps = <<"discover">>

\* C1: right after discovery (the tree is still as discovery read it), the
\* result holds exactly the non-hidden, non-denylisted subdirectories with at
\* least one recognized document, strictly ascending by directory name; each
\* team lists exactly its recognized documents, ordered by extension group
\* (.md, .qmd, .ipynb, sniffed .py) and by file name within a group, each
\* with the kind of its group.
C1_DiscoveryResult ==
    JustDiscovered =>
        /\ {discovered[i].name : i \in 1..Len(discovered)} = ExpectedTeamNames
        /\ \A i, j \in 1..Len(discovered) :
              i < j => StrLess(discovered[i].name, discovered[j].name)
        /\ \A n \in DOMAIN fs.entries :
              (Hidden(n) \/ n \in SkipDirs \/ ~fs.entries[n].isdir)
                 => \A i \in 1..Len(discovered) : discovered[i].name # n
        /\ \A i \in 1..Len(discovered) :
              LET t  == discovered[i]
                  fl == fs.entries[t.name].files
              IN  /\ t.files # <<>>
                  /\ {t.files[j].path : j \in 1..Len(t.files)}
                        = {<<t.name, n>> : n \in Recognized(fl)}
                  /\ Len(t.files) = Cardinality(Recognized(fl))
                  /\ \A j \in 1..Len(t.files) :
                        /\ KindGroup(t.files[j].type) = ExtGroup(t.files[j].path[2])
                        /\ t.files[j].name = Stem(t.files[j].path[2])
                  /\ \A j, k \in 1..Len(t.files) :
                        j < k =>
                          \/ ExtGroup(t.files[j].path[2]) < ExtGroup(t.files[k].path[2])
                          \/ /\ ExtGroup(t.files[j].path[2]) = ExtGroup(t.files[k].path[2])
                             /\ StrLess(t.files[j].path[2], t.files[k].path[2])

\* A denylisted or hidden directory full of documents is skipped while a
\* team with documents of all four classes is returned.
C1_Witness ==
    /\ JustDiscovered
    /\ Len(discovered) = 1
    /\ Len(discovered[1].files) = 5
    /\ \E n \in DOMAIN fs.entries :
          /\ (Hidden(n) \/ n \in SkipDirs)
          /\ fs.entries[n].isdir
          /\ Recognized(fs.entries[n].files) # {}

RenderFailed == render \in {"nonzero", "notfound", "raised"}

\* C2: when the process has exited, its status is 1 exactly if the render
\* step failed and 0 otherwise; and when the renderer was not found, the
\* status is 1 and both _quarto.yml and index.qmd had been written.
C2_ExitStatusIffRenderFailed ==
    /\ exitCode # -1 =>
          /\ exitCode \in {0, 1}
          /\ (exitCode = 1) <=> RenderFailed
    /\ render = "notfound" =>
          /\ exitCode = 1
          /\ rootFiles.yml.written /\ rootFiles.index.written

\* The steps of a complete run: discovery, one conversion per convertible
\* document, configuration, landing page, one render.
FullRun ==
    <<"discover">>
    \o [i \in 1..Cardinality(JupyFrom(discovered, <<1, 1>>)) |-> "convert"]
    \o <<"yml", "index", "render">>

\* C3: the steps of a run happen in the fixed order (what has happened so far
\* is a prefix of the full run), and a run that has ended has gone through
\* all of them, the render exactly once, whatever the conversions did.
C3_StepOrder ==
    /\ steps # <<>> =>
          /\ Len(steps) <= Len(FullRun)
          /\ steps = SubSeq(FullRun, 1, Len(steps))
    /\ exitCode # -1 => steps = FullRun

LastSource == DocAt(discovered, last.pos).path
LastOutputExists ==
    FileExists(fs, LastSource[1], Stem(LastSource[2]) \o ExtQmd)

\* C4 as stated: a call returns the output path if and only if the converter
\* ran, exited with code zero and the output file exists afterwards.
C4_ResultIffToolSucceeded ==
    last.pos # <<0, 0>> =>
        /\ last.toolRuns <= 1
        /\ (last.result # NoResult)
              <=> (last.toolRuns = 1 /\ last.rc = 0 /\ LastOutputExists)
        /\ last.manualRan => ~last.located

\* C4 amended: the converter is started at most once; when it was started the
\* call returns the output path if and only if it exited with code zero and
\* the output file exists afterwards, and the manual fallback is not run; the
\* manual fallback runs only when the executable could not be located, and a
\* path returned without the converter having run is the fallback's.
C4_ResultWhenToolRan ==
    last.pos # <<0, 0>> =>
        /\ last.toolRuns <= 1
        /\ last.toolRuns = 1 =>
              /\ (last.result # NoResult) <=> (last.rc = 0 /\ LastOutputExists)
              /\ last.result # NoResult =>
                    last.result = <<LastSource[1], Stem(LastSource[2]) \o ExtQmd>>
              /\ ~last.manualRan
        /\ last.manualRan => (~last.located /\ last.toolRuns = 0)
        /\ (last.toolRuns = 0 /\ last.result # NoResult) => last.manualRan

\* The converter ran, exited with zero and wrote nothing, and no stale output
\* was there: no result, no fallback.
C4_Witness ==
    /\ last.pos # <<0, 0>>
    /\ last.toolRuns = 1 /\ last.rc = 0
    /\ ~LastOutputExists
    /\ last.result = NoResult

\* C5: every document keeps a kind of the enumeration; a document discovery
\* did not classify as convertible is as discovery produced it; a convertible
\* one is as discovery produced it unless its conversion returned a path, and
\* then it is <stem>.qmd of the same directory with kind quarto.
C5_ConversionFrame ==
    /\ Len(teams) = Len(discovered)
    /\ \A i \in 1..Len(teams) :
          /\ teams[i].name = discovered[i].name
          /\ Len(teams[i].files) = Len(discovered[i].files)
    /\ \A p \in AllPos(discovered) :
          LET d0 == DocAt(discovered, p)
              d  == DocAt(teams, p)
          IN  /\ d.type \in Kinds
              /\ d0.type # "jupytext" => d = d0
              /\ d0.type = "jupytext" =>
                    IF p \in DOMAIN results /\ results[p] # NoResult
                    THEN /\ d.path = <<d0.path[1], Stem(d0.path[2]) \o ExtQmd>>
                         /\ d.type = "quarto"
                         /\ d.name = d0.name
                    ELSE d = d0

\* The conversion phase is over with one document converted and one not.
C5_Witness ==
    /\ pc = "yml"
    /\ \E p, q \in DOMAIN results : results[p] = NoResult /\ results[q] # NoResult

\* C6: no exception leaves a conversion, and a run ends with a failure only
\* after the render step was reached.
C6_NoExceptionBeforeRender ==
    /\ ~last.raised
    /\ exitCode = 1 => render # "none"

Distinct(seq) == \A j, k \in 1..Len(seq) : j < k => seq[j] # seq[k]

\* C10: after the conversion phase no two documents of a team share a path,
\* no navigation section of the written configuration and no team list of
\* the written landing page names a file twice, and no conversion result is
\* the path of another document discovery listed for that team.
C10_UniquePaths ==
    /\ pc \in {"yml", "index", "render", "done"} =>
          \A i \in 1..Len(teams) :
              Distinct([j \in 1..Len(teams[i].files) |-> teams[i].files[j].path])
    /\ rootFiles.yml.written =>
          \A i \in 1..Len(rootFiles.yml.sidebar) : Distinct(rootFiles.yml.sidebar[i].contents)
    /\ rootFiles.index.written =>
          \A i \in 1..Len(rootFiles.index.team_links) :
              Distinct([j \in 1..Len(rootFiles.index.team_links[i].links) |->
                          rootFiles.index.team_links[i].links[j].href])
    /\ \A p \in DOMAIN results :
          results[p] # NoResult =>
              \A q \in AllPos(discovered) :
                  (q # p /\ q[1] = p[1]) => DocAt(discovered, q).path # results[p]

\* C8: the sniff answers true exactly for a readable file with "# ---" wholly
\* inside its first 500 characters and "jupytext:" wholly inside its first 1000.
C8_SniffWindows ==
    sPc = "done" =>
        (sResult <=>
            /\ sFile.readable
            /\ \E i \in 1..(Len(sFile.text) - 4) :
                  i + 4 <= 500 /\ SubSeq(sFile.text, i, i + 4) = Delim
            /\ \E j \in 1..(Len(sFile.text) - 8) :
                  j + 8 <= 1000 /\ SubSeq(sFile.text, j, j + 8) = Marker)

\* Convertible with both tokens ending on the last character of their window.
C8_Witness ==
    /\ sPc = "done" /\ sResult
    /\ Len(sFile.text) >= 1000
    /\ SubSeq(sFile.text, 496, 500) = Delim
    /\ SubSeq(sFile.text, 992, 1000) = Marker

IsFence(l) == l \in {OpenFence, CloseFenceNl, CloseFence}
Fences(ls) == SelectSeq(ls, IsFence)

\* C7: in the output built so far the fences alternate, opening first; during
\* the body loop a region is open exactly when the last fence is an opening
\* one; the finished output has every region closed.
C7_FencesAlternate ==
    mPc \in {"body", "done"} =>
        LET f == Fences(mSt.qmd_lines)
        IN  /\ \A i \in 1..Len(f) :
                  IF i % 2 = 1 THEN f[i] = OpenFence
                  ELSE f[i] \in {CloseFenceNl, CloseFence}
            /\ mPc = "body" => (mSt.in_code_block <=> Len(f) % 2 = 1)
            /\ mPc = "done" => Len(f) % 2 = 0

\* A region closed by a markdown-cell marker and one closed at end of input.
C7_Witness ==
    /\ mPc = "done"
    /\ Fences(mSt.qmd_lines) = <<OpenFence, CloseFenceNl, OpenFence, CloseFence>>

DelimLines(ls) == {i \in 1..Len(ls) : Strip(ls[i]) = Delim}

\* The body the partition rules give for lines with no header to skip.
PartitionedBody(ls) ==
    CloseOpenBlock(
        FoldBody([ManualStart EXCEPT !.skip_header = FALSE, !.qmd_lines = <<>>], ls)
    ).qmd_lines

NonBlank(ls) == SelectSeq(ls, LAMBDA l : Strip(l) # <<>>)

\* C9: for a source without a metadata block (fewer than two delimiter
\* lines) the output starts with the block synthesized from the stem, and when
\* the source has no delimiter line at all the body holds its lines
\* partitioned into text and code regions (blank lines aside).
C9_NoHeaderStillConverted ==
    (mPc = "done" /\ Cardinality(DelimLines(mLines)) < 2) =>
        /\ SubSeq(mSt.qmd_lines, 1, 3) = <<YamlFence, TitleLine(mStem), YamlFenceNl>>
        /\ DelimLines(mLines) = {} =>
              NonBlank(Drop(mSt.qmd_lines, 3)) = NonBlank(PartitionedBody(mLines))

====
